---------------------------- MODULE Spec2Model ----------------------------
(***************************************************************************)
(* A model of fossil.py (fossilpy 0.3): the base-64 varint codec, the      *)
(* delta decoder, the clear-sign stripper, the card parser, the LRU cache  *)
(* and Repo.artifact.                                                      *)
(*                                                                         *)
(* Bytes and characters are their integer codes (ASCII); a bytes object or *)
(* a str is a sequence of codes.  Python positions are 0-based, so the     *)
(* byte at Python position p of a buffer b is b[p + 1] here.               *)
(***************************************************************************)
EXTENDS Integers, Sequences, FiniteSets, TLC

VARIABLES
    v, enc, dec,                    \* varint: value, base64_putint(v), base64_getint(enc)
    source, delta, dres,            \* delta_apply: source blob, delta, outcome
    csblob, cs1, cs2,               \* remove_clearsign: blob, one pass, two passes
    ustr, uesc, uout, uraw,         \* text_escape / text_unescape
    pblob, pres,                    \* StructuralArtifact.parse: blob, outcome
    capacity, data,                 \* LRUCache.capacity, LRUCache.data (an OrderedDict)
    clock, lastUse, lruLast,        \* history of the cache's uses (not program state)
    db, check, res                  \* Repo: the database, Repo.check, last lookup's outcome

varintVars == <<v, enc, dec>>
deltaVars  == <<source, delta, dres>>
csVars     == <<csblob, cs1, cs2>>
textVars   == <<ustr, uesc, uout, uraw>>
parseVars  == <<pblob, pres>>
cacheVars  == <<capacity, data>>
histVars   == <<clock, lastUse, lruLast>>
repoVars   == <<db, check, res>>
vars == <<varintVars, deltaVars, csVars, textVars, parseVars, cacheVars,
          histVars, repoVars>>

\* The value of a result variable before the operation has run.
NotYet == [done |-> FALSE]

\* Each component's variables while another component is being exercised.
IdleVarint == v = 0 /\ enc = NotYet /\ dec = NotYet
IdleDelta  == source = <<>> /\ delta = <<>> /\ dres = NotYet
IdleCs     == csblob = <<>> /\ cs1 = NotYet /\ cs2 = NotYet
IdleText   == ustr = <<>> /\ uesc = NotYet /\ uout = NotYet /\ uraw = NotYet
IdleParse  == pblob = <<>> /\ pres = NotYet
IdleCache  == capacity = 0 /\ data = <<>>
IdleHist   == clock = 0 /\ lastUse = <<>> /\ lruLast = NotYet
IdleRepo   == db = <<>> /\ check = FALSE /\ res = NotYet

(***************************************************************************)
(* Python sequence helpers.                                                *)
(***************************************************************************)
Min(a, b) == IF a < b THEN a ELSE b

\* s[a:b] for 0 <= a, 0 <= b: Python clamps both ends to len(s).
Slice(s, a, b) ==
    LET lo == Min(a, Len(s))
        hi == Min(b, Len(s))
    IN  IF hi <= lo THEN <<>> ELSE SubSeq(s, lo + 1, hi)

\* s[a:]
From(s, a) == Slice(s, a, Len(s))

\* s.startswith(p)
StartsWith(s, p) == Len(s) >= Len(p) /\ SubSeq(s, 1, Len(p)) = p

\* All sequences over S of length at most n.
SeqsUpTo(S, n) == UNION {[1..k -> S] : k \in 0..n}

RECURSIVE Concat(_)
\* b''.join(ss)
Concat(ss) == IF ss = <<>> THEN <<>> ELSE Head(ss) \o Concat(Tail(ss))

(***************************************************************************)
(* base64_putint, base64_getint                                            *)
(***************************************************************************)
zdigits == <<48, 49, 50, 51, 52, 53, 54, 55, 56, 57, 65, 66, 67, 68, 69, 70,
             71, 72, 73, 74, 75, 76, 77, 78, 79, 80, 81, 82, 83, 84, 85, 86,
             87, 88, 89, 90, 95, 97, 98, 99, 100, 101, 102, 103, 104, 105,
             106, 107, 108, 109, 110, 111, 112, 113, 114, 115, 116, 117, 118,
             119, 120, 121, 122, 126>>

\* base64_getint.zvalue, indexed from 1 here.
zvalue == <<
    -1, -1, -1, -1, -1, -1, -1, -1,   -1, -1, -1, -1, -1, -1, -1, -1,
    -1, -1, -1, -1, -1, -1, -1, -1,   -1, -1, -1, -1, -1, -1, -1, -1,
    -1, -1, -1, -1, -1, -1, -1, -1,   -1, -1, -1, -1, -1, -1, -1, -1,
     0,  1,  2,  3,  4,  5,  6,  7,    8,  9, -1, -1, -1, -1, -1, -1,
    -1, 10, 11, 12, 13, 14, 15, 16,   17, 18, 19, 20, 21, 22, 23, 24,
    25, 26, 27, 28, 29, 30, 31, 32,   33, 34, 35, -1, -1, -1, -1, 36,
    -1, 37, 38, 39, 40, 41, 42, 43,   44, 45, 46, 47, 48, 49, 50, 51,
    52, 53, 54, 55, 56, 57, 58, 59,   60, 61, 62, -1, -1, -1, 63, -1 >>

RECURSIVE putint_loop(_, _)
\* while v > 0: ret += zdigits[v&0x3f]; v >>= 6
putint_loop(n, ret) ==
    IF n > 0 THEN putint_loop(n \div 64, Append(ret, zdigits[(n % 64) + 1]))
    ELSE ret

base64_putint(n) == IF n = 0 THEN <<48>> ELSE putint_loop(n, <<>>)

RECURSIVE getint_loop(_, _, _, _)
\* The for loop over enumerate(buf[pos:]); z counts the bytes already taken.
\* Leaving the loop by exhaustion runs the else clause, z += 1, which raises
\* UnboundLocalError when the slice was empty and z was never bound.
getint_loop(buf, pos, z, acc) ==
    IF pos + z >= Len(buf)
    THEN [err |-> IF z = 0 THEN "UnboundLocalError" ELSE "", v |-> acc, pos |-> pos + z]
    ELSE LET c == zvalue[(buf[pos + z + 1] % 128) + 1]
         IN  IF c < 0 THEN [err |-> "", v |-> acc, pos |-> pos + z]
             ELSE getint_loop(buf, pos, z + 1, acc * 64 + c)

\* Returns (v, pos+z), or raises.
base64_getint(buf, pos) == getint_loop(buf, pos, 0, 0)

----------------------------------------------------------------------------
(***************************************************************************)
(* The varint codec exercised on every value up to MaxV.                   *)
(***************************************************************************)
MaxV == 200

InitVarint ==
    /\ v \in 0..MaxV /\ enc = NotYet /\ dec = NotYet
    /\ IdleDelta /\ IdleCs /\ IdleText /\ IdleParse /\ IdleCache /\ IdleHist /\ IdleRepo

Encode ==
    /\ ~enc.done
    /\ enc' = [done |-> TRUE, val |-> base64_putint(v)]
    /\ UNCHANGED <<v, dec, deltaVars, csVars, textVars, parseVars, cacheVars, histVars, repoVars>>

Decode ==
    /\ enc.done /\ ~dec.done
    /\ dec' = [done |-> TRUE, val |-> base64_getint(enc.val, 0)]
    /\ UNCHANGED <<v, enc, deltaVars, csVars, textVars, parseVars, cacheVars, histVars, repoVars>>

NextVarint == Encode \/ Decode

SpecVarint == InitVarint /\ [][NextVarint]_vars

\* C2: varint round trip: decoding base64_putint(v) yields v and consumes
\* exactly the encoded symbols, for every non-negative v.
VarintRoundTrip ==
    dec.done => dec.val = [err |-> "", v |-> v, pos |-> Len(enc.val)]

\* What does hold of the codec: values below 64 (one symbol) round-trip.
VarintRoundTripOneSymbol ==
    (dec.done /\ v < 64) => dec.val = [err |-> "", v |-> v, pos |-> 1]

----------------------------------------------------------------------------
(***************************************************************************)
(* delta_checksum, delta_apply                                             *)
(***************************************************************************)
\* TLC's integers are 32-bit signed, so a 32-bit unsigned word is kept as its
\* two 16-bit halves <<hi, lo>>, standing for hi * 65536 + lo.  Adding words
\* modulo uint32 = 4294967296 is adding the halves with the carry out of lo
\* and dropping the carry out of hi.
Half == 65536

\* struct.unpack('>I', w)[0] for a 4-byte w
unpack_I(w) == <<w[1] * 256 + w[2], w[3] * 256 + w[4]>>

\* (a + b) % uint32
AddU32(a, b) ==
    LET lo == a[2] + b[2]
    IN  <<(a[1] + b[1] + lo \div Half) % Half, lo % Half>>

\* A non-negative int below 2^31 as a word.
U32(n) == <<n \div Half, n % Half>>

\* b'\0' * n
Zeros(n) == [i \in 1..n |-> 0]

RECURSIVE checksum_loop(_, _, _, _)
\* for i in range(ints): checksum = (checksum + word i) % uint32
checksum_loop(blob, ints, i, checksum) ==
    IF i >= ints THEN checksum
    ELSE checksum_loop(blob, ints, i + 1,
                       AddU32(checksum, unpack_I(Slice(blob, i * 4, i * 4 + 4))))

\* The sum of the big-endian 32-bit words of blob, its tail padded with
\* 4 - m zero bytes (four of them when len(blob) % 4 = 0, which add nothing).
delta_checksum(blob) ==
    LET ints == Len(blob) \div 4
        m    == Len(blob) % 4
        rem  == From(blob, ints * 4) \o Zeros(4 - m)
    IN  AddU32(checksum_loop(blob, ints, 0, <<0, 0>>), unpack_I(rem))

DeltaError(e) == [err |-> e, out |-> <<>>, checksum |-> 0, oob |-> FALSE]

RECURSIVE delta_loop(_, _, _, _, _)
\* The while loop of delta_apply from position pos with out written so far.
\* oob records (for the claims only) that a COPY took offset + num beyond
\* len(blob); the code itself never looks.
delta_loop(blob, dlt, pos, out, oob) ==
    IF pos >= Len(dlt) THEN DeltaError("ValueError: invalid delta encoding")
    ELSE
    LET num == base64_getint(dlt, pos) IN
    IF num.err # "" THEN DeltaError(num.err)
    ELSE IF num.pos >= Len(dlt) THEN DeltaError("IndexError")
    ELSE
    LET op == dlt[num.pos + 1] IN
    IF op = 64 THEN
        LET offset == base64_getint(dlt, num.pos + 1) IN
        IF offset.err # "" THEN DeltaError(offset.err)
        ELSE delta_loop(blob, dlt, offset.pos + 1,
                        out \o Slice(blob, offset.v, offset.v + num.v),
                        oob \/ offset.v + num.v > Len(blob))
    ELSE IF op = 58 THEN
        delta_loop(blob, dlt, num.pos + 1 + num.v,
                   out \o Slice(dlt, num.pos + 1, num.pos + 1 + num.v), oob)
    ELSE IF op = 59 THEN
        [err |-> "", out |-> out, checksum |-> num.v, oob |-> oob]
    ELSE DeltaError("ValueError: invalid delta encoding")

\* delta_apply(blob, delta, check): [err |-> "", out |-> the new blob], or the
\* exception raised.
delta_apply(blob, dlt, chk) ==
    LET targetsize == base64_getint(dlt, 0) IN
    IF targetsize.err # "" THEN DeltaError(targetsize.err)
    ELSE
    LET r == delta_loop(blob, dlt, targetsize.pos + 1, <<>>, FALSE) IN
    IF r.err # "" THEN r
    ELSE IF targetsize.v # Len(r.out)
        THEN [r EXCEPT !.err = "ValueError: delta decoding failed, size mismatch"]
    ELSE IF chk /\ U32(r.checksum) # delta_checksum(r.out)
        THEN [r EXCEPT !.err = "ValueError: delta decoding failed, data mismatch"]
    ELSE r

----------------------------------------------------------------------------
(***************************************************************************)
(* delta_apply exercised on small sources and deltas.  A delta is a target *)
(* size, at most MaxInstr COPY or INSERT instructions and a tail: an END   *)
(* with a declared sum, an unknown op, or nothing.  Every varint of these   *)
(* deltas is below 2^31, the largest integer TLC computes with.            *)
(***************************************************************************)
MaxSrcLen == 2
MaxNum == 2
MaxInstr == 2

RECURSIVE putint_be(_)
\* The repository format's varint, most significant digit first (what
\* base64_getint reads); used to write the test deltas.
putint_be(n) ==
    IF n < 64 THEN <<zdigits[n + 1]>>
    ELSE Append(putint_be(n \div 64), zdigits[(n % 64) + 1])

Sources == SeqsUpTo({97, 98}, MaxSrcLen)

\* "<n>@<offset>," and "<n>:<n bytes>"
CopyInstrs == {putint_be(n) \o <<64>> \o putint_be(o) \o <<44>> :
                   n \in 0..MaxNum, o \in 0..MaxNum}
InsertInstrs == {putint_be(Len(lit)) \o <<58>> \o lit : lit \in {<<120>>, <<120, 121>>}}
Instrs == CopyInstrs \cup InsertInstrs

\* "<sum>;" with the sum of no bytes or of "x", "3" with no op after it, "0!"
SumOfX == delta_checksum(<<120>>)[1] * Half + delta_checksum(<<120>>)[2]
Tails == {<<48, 59>>, putint_be(SumOfX) \o <<59>>, <<>>, <<51>>, <<48, 33>>}

Deltas == {putint_be(t) \o <<10>> \o Concat(is) \o tl :
               t \in 0..MaxNum, is \in SeqsUpTo(Instrs, MaxInstr), tl \in Tails}
          \cup {<<>>}

InitDelta ==
    /\ source \in Sources /\ delta \in Deltas /\ check \in BOOLEAN /\ dres = NotYet
    /\ db = <<>> /\ res = NotYet
    /\ IdleVarint /\ IdleCs /\ IdleText /\ IdleParse /\ IdleCache /\ IdleHist

Apply ==
    /\ ~dres.done
    /\ dres' = [done |-> TRUE, val |-> delta_apply(source, delta, check)]
    /\ UNCHANGED <<source, delta, varintVars, csVars, textVars, parseVars, cacheVars,
                   histVars, repoVars>>

NextDelta == Apply

SpecDelta == InitDelta /\ [][NextDelta]_vars

\* C4: a COPY whose offset + n exceeds len(source) always makes delta_apply
\* fail, whatever target size the delta declares.
CopyOutOfRangeFails ==
    (dres.done /\ dres.val.oob) => dres.val.err # ""

\* Delta size contract: a successful apply returns exactly the declared
\* number of bytes.
DeltaSizeContract ==
    (dres.done /\ dres.val.err = "") => Len(dres.val.out) = base64_getint(delta, 0).v

----------------------------------------------------------------------------
(***************************************************************************)
(* text_escape, text_unescape                                              *)
(***************************************************************************)
RECURSIVE Replace(_, _, _)
\* s.replace(old, new) for a non-empty old: every non-overlapping occurrence,
\* found left to right, in one scan of the original string.
Replace(s, old, new) ==
    IF s = <<>> THEN <<>>
    ELSE IF StartsWith(s, old) THEN new \o Replace(From(s, Len(old)), old, new)
    ELSE <<Head(s)>> \o Replace(Tail(s), old, new)

\* '\\' is 92, ' ' 32, '\n' 10, 's' 115, 'n' 110
text_escape(s) ==
    Replace(Replace(Replace(s, <<92>>, <<92, 92>>), <<32>>, <<92, 115>>), <<10>>, <<92, 110>>)

text_unescape(s) ==
    Replace(Replace(Replace(s, <<92, 115>>, <<32>>), <<92, 110>>, <<10>>), <<92, 92>>, <<92>>)

RECURSIVE SinglePassUnescape(_)
\* The decoder the specification describes: one left-to-right pass in which
\* a backslash introduces an escape (\\ -> \, \s -> space, \n -> newline);
\* a backslash before anything else is kept.
SinglePassUnescape(s) ==
    IF s = <<>> THEN <<>>
    ELSE IF Head(s) = 92 /\ Len(s) >= 2 /\ s[2] \in {92, 115, 110}
         THEN <<CASE s[2] = 92 -> 92 [] s[2] = 115 -> 32 [] OTHER -> 10>>
              \o SinglePassUnescape(From(s, 2))
    ELSE <<Head(s)>> \o SinglePassUnescape(Tail(s))

----------------------------------------------------------------------------
(***************************************************************************)
(* The escaping pair exercised on every string of at most MaxStrLen        *)
(* characters over backslash, space, newline, 's', 'n' and 'a'.            *)
(***************************************************************************)
MaxStrLen == 3

InitText ==
    /\ ustr \in SeqsUpTo({92, 32, 10, 115, 110, 97}, MaxStrLen)
    /\ uesc = NotYet /\ uout = NotYet /\ uraw = NotYet
    /\ IdleVarint /\ IdleDelta /\ IdleCs /\ IdleParse /\ IdleCache /\ IdleHist /\ IdleRepo

\* A writer escapes the string ...
Escape ==
    /\ ~uesc.done
    /\ uesc' = [done |-> TRUE, val |-> text_escape(ustr)]
    /\ UNCHANGED <<ustr, uout, uraw, varintVars, deltaVars, csVars, parseVars, cacheVars,
                   histVars, repoVars>>

\* ... and the parser unescapes the token.
Unescape ==
    /\ uesc.done /\ ~uout.done
    /\ uout' = [done |-> TRUE, val |-> text_unescape(uesc.val)]
    /\ UNCHANGED <<ustr, uesc, uraw, varintVars, deltaVars, csVars, parseVars, cacheVars,
                   histVars, repoVars>>

\* The parser unescapes the string as a token it read.
UnescapeToken ==
    /\ ~uraw.done
    /\ uraw' = [done |-> TRUE, val |-> text_unescape(ustr)]
    /\ UNCHANGED <<ustr, uesc, uout, varintVars, deltaVars, csVars, parseVars, cacheVars,
                   histVars, repoVars>>

NextText == Escape \/ Unescape \/ UnescapeToken

SpecText == InitText /\ [][NextText]_vars

\* C9: text_unescape gives on every input the result of the single
\* left-to-right pass, and in particular undoes text_escape.
UnescapeIsSinglePass ==
    /\ uraw.done => uraw.val = SinglePassUnescape(ustr)
    /\ uout.done => uout.val = SinglePassUnescape(uesc.val) /\ uout.val = ustr

\* The single pass itself does undo text_escape.
SinglePassUndoesEscape ==
    uesc.done => SinglePassUnescape(uesc.val) = ustr

----------------------------------------------------------------------------
(***************************************************************************)
(* remove_clearsign                                                        *)
(***************************************************************************)
\* b'-----BEGIN PGP SIGNED MESSAGE-----'
clearsign_header ==
    <<45, 45, 45, 45, 45, 66, 69, 71, 73, 78, 32, 80, 71, 80, 32, 83, 73, 71, 78,
      69, 68, 32, 77, 69, 83, 83, 65, 71, 69, 45, 45, 45, 45, 45>>

\* b'-----BEGIN PGP SIGNATURE-----'
pgpsign_header ==
    <<45, 45, 45, 45, 45, 66, 69, 71, 73, 78, 32, 80, 71, 80, 32, 83, 73, 71, 78,
      65, 84, 85, 82, 69, 45, 45, 45, 45, 45>>

\* The bytes bytes.rstrip() removes: space, \t, \n, \v, \f, \r.
Whitespace == {32, 9, 10, 11, 12, 13}

RECURSIVE rstrip(_)
\* ln.rstrip()
rstrip(s) ==
    IF s # <<>> /\ s[Len(s)] \in Whitespace THEN rstrip(SubSeq(s, 1, Len(s) - 1)) ELSE s

RECURSIVE LineEnd(_, _)
\* The length of the first line of s from position i (1-based) on, its
\* terminator (\n, \r or \r\n) included.
LineEnd(s, i) ==
    IF i > Len(s) THEN Len(s)
    ELSE IF s[i] = 10 THEN i
    ELSE IF s[i] = 13 THEN (IF i < Len(s) /\ s[i + 1] = 10 THEN i + 1 ELSE i)
    ELSE LineEnd(s, i + 1)

RECURSIVE splitlines(_)
\* blob.splitlines(True)
splitlines(s) ==
    IF s = <<>> THEN <<>>
    ELSE LET n == LineEnd(s, 1) IN <<SubSeq(s, 1, n)>> \o splitlines(From(s, n))

RECURSIVE clearsign_loop(_, _, _)
\* The for loop of remove_clearsign over the lines still to read; content is
\* the flag, lines the list built so far.  None when the loop breaks.
clearsign_loop(todo, content, lines) ==
    IF todo = <<>> THEN lines
    ELSE LET ln == Head(todo) IN
         IF rstrip(ln) = <<>> THEN clearsign_loop(Tail(todo), TRUE, lines)
         ELSE IF content THEN
              IF rstrip(ln) = pgpsign_header THEN lines
              ELSE IF StartsWith(ln, <<45, 32>>)
                   THEN clearsign_loop(Tail(todo), content, Append(lines, From(ln, 2)))
              ELSE clearsign_loop(Tail(todo), content, Append(lines, ln))
         ELSE clearsign_loop(Tail(todo), content, lines)

\* The same with the test for the header left out: every blob is treated as
\* a signed message.
remove_clearsign_unguarded(blob) == Concat(clearsign_loop(splitlines(blob), FALSE, <<>>))

remove_clearsign(blob) ==
    IF ~StartsWith(blob, clearsign_header) THEN blob
    ELSE Concat(clearsign_loop(splitlines(blob), FALSE, <<>>))

(***************************************************************************)
(* The stripper as the specification words it: the lines after the first   *)
(* blank line and before the signature line that follows, each without its *)
(* dash-escape, blank lines included.                                      *)
(***************************************************************************)
IsBlank(ln) == rstrip(ln) = <<>>

Undash(ln) == IF StartsWith(ln, <<45, 32>>) THEN From(ln, 2) ELSE ln

\* The least member of the set hits of indices, or dflt when it is empty.
LeastOr(hits, dflt) ==
    IF hits = {} THEN dflt ELSE CHOOSE i \in hits : \A j \in hits : i <= j

SignedBody(blob) ==
    LET ls == splitlines(blob)
        b  == LeastOr({i \in 1..Len(ls) : IsBlank(ls[i])}, Len(ls) + 1)
        e  == LeastOr({i \in (b + 1)..Len(ls) : rstrip(ls[i]) = pgpsign_header}, Len(ls) + 1)
    IN  Concat([i \in 1..(e - b - 1) |-> Undash(ls[b + i])])

\* No line after the first begins with the clear-sign header, as it stands
\* or once a leading "- " is removed.
NoNestedHeader(blob) ==
    LET ls == splitlines(blob)
    IN  \A i \in 2..Len(ls) : ~StartsWith(Undash(ls[i]), clearsign_header)

----------------------------------------------------------------------------
(***************************************************************************)
(* remove_clearsign exercised on every blob of at most MaxLines lines      *)
(* drawn from: the clear-sign header line, a blank line, a card line       *)
(* "C hi" ending in \r\n, a dash-escaped clear-sign header line, the       *)
(* dash-escaped line "- -x" and the signature line.                        *)
(***************************************************************************)
MaxLines == 4

CsLines ==
    { clearsign_header \o <<10>>,
      <<10>>,
      <<67, 32, 104, 105, 13, 10>>,
      <<45, 32>> \o clearsign_header \o <<10>>,
      <<45, 32, 45, 120, 10>>,
      pgpsign_header \o <<10>> }

InitCs ==
    /\ csblob \in {Concat(ls) : ls \in SeqsUpTo(CsLines, MaxLines)}
    /\ cs1 = NotYet /\ cs2 = NotYet
    /\ IdleVarint /\ IdleDelta /\ IdleText /\ IdleParse /\ IdleCache /\ IdleHist /\ IdleRepo

Strip ==
    /\ ~cs1.done
    /\ cs1' = [done |-> TRUE, val |-> remove_clearsign(csblob)]
    /\ UNCHANGED <<csblob, cs2, varintVars, deltaVars, textVars, parseVars, cacheVars,
                   histVars, repoVars>>

StripAgain ==
    /\ cs1.done /\ ~cs2.done
    /\ cs2' = [done |-> TRUE, val |-> remove_clearsign(cs1.val)]
    /\ UNCHANGED <<csblob, cs1, varintVars, deltaVars, textVars, parseVars, cacheVars,
                   histVars, repoVars>>

NextCs == Strip \/ StripAgain

SpecCs == InitCs /\ [][NextCs]_vars

\* C5 (as claimed): stripping is idempotent on every blob, blobs whose signed
\* body holds dash-escaped lines included.
ClearsignIdempotent ==
    cs2.done => cs2.val = cs1.val

\* C5 (amended): stripping is idempotent on every blob in which no line after
\* the first begins with the clear-sign header, as it stands or once its
\* leading "- " is removed.
ClearsignIdempotentUnlessNested ==
    (cs2.done /\ NoNestedHeader(csblob)) => cs2.val = cs1.val

\* A signed blob without a nested header whose body held a dash-escaped line
\* has been stripped twice.
ClearsignIdempotentWitness ==
    /\ cs2.done
    /\ StartsWith(csblob, clearsign_header)
    /\ NoNestedHeader(csblob)
    /\ \E i \in 1..Len(splitlines(csblob)) : splitlines(csblob)[i] = <<45, 32, 45, 120, 10>>
    /\ StartsWith(cs1.val, <<45, 120, 10>>)

\* C10: for a blob that begins with the clear-sign header the result is
\* exactly the signed body: every line between the first blank line and the
\* signature line, blank lines included, dash-escapes removed.
ClearsignEmitsWholeBody ==
    (cs1.done /\ StartsWith(csblob, clearsign_header)) => cs1.val = SignedBody(csblob)

----------------------------------------------------------------------------
(***************************************************************************)
(* StructuralArtifact.parse                                                *)
(*                                                                         *)
(* The blobs parsed here are ASCII, on which bytes.decode('utf-8') maps    *)
(* every byte to the character of the same code.                           *)
(***************************************************************************)
\* StructuralArtifact.CARDTYPES, keyed by the code of the card letter.
CARDTYPES ==
    65 :> "attachment" @@ 66 :> "baseline" @@ 67 :> "comment" @@ 68 :> "datetime" @@
    69 :> "technote" @@ 70 :> "file" @@ 71 :> "thread_root" @@ 72 :> "thread_title" @@
    73 :> "in_reply_to" @@ 74 :> "ticket_change" @@ 75 :> "ticket_id" @@
    76 :> "wiki_title" @@ 77 :> "manifest" @@ 78 :> "mimetype" @@
    80 :> "parent_artifact" @@ 81 :> "cherry_pick" @@ 82 :> "repository_checksum" @@
    84 :> "tag" @@ 85 :> "user_login" @@ 87 :> "wiki_text" @@ 90 :> "checksum"

\* frozenset('FJMQT'): a set of one-character strings
CARDMULTI == {<<70>>, <<74>>, <<77>>, <<81>>, <<84>>}

\* x in s, for strings: x occurs in s as a substring (the empty string does).
IsSubstring(x, s) == \E i \in 0..(Len(s) - Len(x)) : SubSeq(s, i + 1, i + Len(x)) = x

\* The characters str.rstrip() removes, among ASCII.
StrWhitespace == Whitespace \cup {28, 29, 30, 31}

RECURSIVE str_rstrip(_)
str_rstrip(s) ==
    IF s # <<>> /\ s[Len(s)] \in StrWhitespace THEN str_rstrip(SubSeq(s, 1, Len(s) - 1))
    ELSE s

RECURSIVE split_loop(_, _)
\* s.split(' '): cur is the token being read.
split_loop(s, cur) ==
    IF s = <<>> THEN <<cur>>
    ELSE IF Head(s) = 32 THEN <<cur>> \o split_loop(Tail(s), <<>>)
    ELSE split_loop(Tail(s), Append(cur, Head(s)))

split(s) == split_loop(s, <<>>)

RECURSIVE readline_end(_, _)
\* Where f.readline() stops: the Python position after the next \n at or
\* after pos, or the end of the buffer.
readline_end(buf, pos) ==
    IF pos >= Len(buf) THEN Len(buf)
    ELSE IF buf[pos + 1] = 10 THEN pos + 1
    ELSE readline_end(buf, pos + 1)

IsDigit(c) == c \in 48..57

Num2(s, i) == (s[i] - 48) * 10 + (s[i + 1] - 48)

IsLeap(y) == y % 4 = 0 /\ (y % 100 # 0 \/ y % 400 = 0)

DaysInMonth(y, m) ==
    IF m = 2 THEN (IF IsLeap(y) THEN 29 ELSE 28)
    ELSE IF m \in {4, 6, 9, 11} THEN 30 ELSE 31

RECURSIVE DaysBeforeMonth(_, _)
DaysBeforeMonth(y, m) == IF m = 1 THEN 0 ELSE DaysBeforeMonth(y, m - 1) + DaysInMonth(y, m - 1)

\* Days from 1970-01-01 to the first day of year y (y >= 1970).
DaysBeforeYear(y) ==
    LET LeapsTo(n) == n \div 4 - n \div 100 + n \div 400
    IN  (y - 1970) * 365 + LeapsTo(y - 1) - LeapsTo(1969)

\* parse_dt: calendar.timegm(time.strptime(s[:19], '%Y-%m-%dT%H:%M:%S')), for
\* the tokens these blobs hold: a token of the fixed-width shape
\* YYYY-MM-DDTHH:MM:SS from 1970 on gives its seconds, any other token of
\* theirs matches no date and raises ValueError.  (strptime also takes
\* one-digit fields, which no token here has.)
parse_dt(tok) ==
    LET t == Slice(tok, 0, 19)
        shaped == /\ Len(t) = 19
                  /\ \A i \in {1, 2, 3, 4, 6, 7, 9, 10, 12, 13, 15, 16, 18, 19} : IsDigit(t[i])
                  /\ t[5] = 45 /\ t[8] = 45 /\ t[11] = 84 /\ t[14] = 58 /\ t[17] = 58
        y  == Num2(t, 1) * 100 + Num2(t, 3)
        mo == Num2(t, 6)
        d  == Num2(t, 9)
        h  == Num2(t, 12)
        mi == Num2(t, 15)
        sec == Num2(t, 18)
    IN  IF /\ shaped /\ y >= 1970 /\ mo \in 1..12 /\ d \in 1..31 /\ h \in 0..23
           /\ mi \in 0..59 /\ sec \in 0..61 /\ d <= DaysInMonth(y, mo)
        THEN [err |-> "",
              v |-> (DaysBeforeYear(y) + DaysBeforeMonth(y, mo) + d - 1) * 86400
                    + h * 3600 + mi * 60 + sec]
        ELSE [err |-> "ValueError", v |-> 0]

RECURSIVE DecimalValue(_, _)
DecimalValue(s, acc) ==
    IF s = <<>> THEN acc ELSE DecimalValue(Tail(s), acc * 10 + (Head(s) - 48))

\* int(tok) for a token of digits with an optional sign; ValueError for the
\* other tokens of these blobs.
int(tok) ==
    LET signed == tok # <<>> /\ Head(tok) \in {43, 45}
        digits == IF signed THEN Tail(tok) ELSE tok
    IN  IF digits # <<>> /\ \A i \in 1..Len(digits) : IsDigit(digits[i])
        THEN [err |-> "", v |-> IF signed /\ Head(tok) = 45 THEN 0 - DecimalValue(digits, 0)
                                ELSE DecimalValue(digits, 0)]
        ELSE [err |-> "ValueError", v |-> 0]

\* tuple(map(text_unescape, toks))
UnescapeAll(toks) == [i \in 1..Len(toks) |-> text_unescape(toks[i])]

\* The value a card line gives: [err, val, pos], pos being the stream's
\* position afterwards (only a W card moves it).  toks[0] of a line without
\* tokens raises IndexError.
CardValue(cmd, toks, buf, pos) ==
    LET ok(x)  == [err |-> "", val |-> x, pos |-> pos]
        bad(e) == [err |-> e, val |-> <<>>, pos |-> pos]
    IN
    IF IsSubstring(cmd, <<65, 70, 74, 84>>) THEN ok(UnescapeAll(toks))
    ELSE IF IsSubstring(cmd, <<66, 71, 73, 75, 77, 78, 82, 90>>) THEN
        IF toks = <<>> THEN bad("IndexError") ELSE ok(toks[1])
    ELSE IF IsSubstring(cmd, <<67, 72, 76, 85>>) THEN
        IF toks = <<>> THEN bad("IndexError") ELSE ok(text_unescape(toks[1]))
    ELSE IF cmd = <<68>> THEN
        IF toks = <<>> THEN bad("IndexError")
        ELSE LET t == parse_dt(toks[1]) IN IF t.err # "" THEN bad(t.err) ELSE ok(t.v)
    ELSE IF cmd = <<69>> THEN
        IF toks = <<>> THEN bad("IndexError")
        ELSE LET t == parse_dt(toks[1]) IN
             IF t.err # "" THEN bad(t.err) ELSE ok(<<t.v>> \o Tail(toks))
    ELSE IF IsSubstring(cmd, <<80, 81>>) THEN ok(toks)
    ELSE IF cmd = <<87>> THEN
        IF toks = <<>> THEN bad("IndexError")
        ELSE LET size == int(toks[1]) IN
             IF size.err # "" THEN bad(size.err)
             ELSE LET stop == IF size.v + 1 < 0 THEN Len(buf)
                              ELSE Min(pos + size.v + 1, Len(buf))
                  IN  [err |-> "", val |-> Slice(buf, pos, stop), pos |-> stop]
    ELSE bad("ValueError: unrecognized card")

\* self.cards after the card is stored.
StoreCard(cards, cmd, val) ==
    IF cmd \in CARDMULTI THEN
        IF cmd \in DOMAIN cards THEN [cards EXCEPT ![cmd] = Append(@, val)]
        ELSE (cmd :> <<val>>) @@ cards
    ELSE (cmd :> val) @@ cards

RECURSIVE parse_loop(_, _, _, _)
\* The while loop of parse with the stream at pos.  cmds lists the first token
\* of every line taken so far (for the claims; the code keeps no such list).
parse_loop(buf, pos, cards, cmds) ==
    LET stop == readline_end(buf, pos)
        line == Slice(buf, pos, stop)
    IN
    IF line = <<>> THEN [err |-> "", cards |-> cards, cmds |-> cmds]
    ELSE
    LET parts == split(str_rstrip(line))
        cmd   == Head(parts)
        toks  == Tail(parts)
        cv    == CardValue(cmd, toks, buf, stop)
    IN  IF cv.err # "" THEN [err |-> cv.err, cards |-> cards, cmds |-> Append(cmds, cmd)]
        ELSE parse_loop(buf, cv.pos, StoreCard(cards, cmd, cv.val), Append(cmds, cmd))

\* StructuralArtifact.parse on self.blob, self.cards being {} before.
parse(blob) == parse_loop(remove_clearsign(blob), 0, <<>>, <<>>)

----------------------------------------------------------------------------
(***************************************************************************)
(* parse exercised on every blob of at most MaxCards pieces drawn from     *)
(* CardLines.                                                              *)
(***************************************************************************)
MaxCards == 2

CardLines ==
    { <<67, 32, 97, 92, 115, 98, 10>>,                      \* "C a\sb\n"
      <<68, 32, 50, 48, 50, 48, 45, 48, 49, 45, 48, 50, 84, 48, 51, 58, 48, 52,
        58, 48, 53, 10>>,                                    \* "D 2020-01-02T03:04:05\n"
      <<68, 32, 120, 10>>,                                   \* "D x\n"
      <<69, 32, 50, 48, 50, 48, 45, 48, 49, 45, 48, 50, 84, 48, 51, 58, 48, 52,
        58, 48, 53, 32, 117, 10>>,                           \* "E 2020-01-02T03:04:05 u\n"
      <<84, 32, 120, 32, 121, 10>>,                          \* "T x y\n"
      <<84, 32, 122, 10>>,                                   \* "T z\n"
      <<90, 32, 100, 10>>,                                   \* "Z d\n"
      <<66, 10>>,                                            \* "B\n"
      <<80, 32, 97, 32, 98, 10>>,                            \* "P a b\n"
      <<87, 32, 50, 10, 104, 105, 10>>,                      \* "W 2\nhi\n"
      <<87, 32, 113, 10>>,                                   \* "W q\n"
      <<88, 32, 121, 10>>,                                   \* "X y\n"
      <<70, 74, 32, 120, 10>>,                               \* "FJ x\n"
      <<71, 73, 32, 122, 10>>,                               \* "GI z\n"
      <<10>>,                                                \* "\n"
      <<32, 102, 10>>,                                       \* " f\n"
      clearsign_header \o <<10, 10>>,                        \* header line, blank line
      pgpsign_header \o <<10>> }

InitParse ==
    /\ pblob \in {Concat(ls) : ls \in SeqsUpTo(CardLines, MaxCards)}
    /\ pres = NotYet
    /\ IdleVarint /\ IdleDelta /\ IdleCs /\ IdleText /\ IdleCache /\ IdleHist /\ IdleRepo

Parse ==
    /\ ~pres.done
    /\ pres' = [done |-> TRUE, val |-> parse(pblob)]
    /\ UNCHANGED <<pblob, varintVars, deltaVars, csVars, textVars, cacheVars, histVars,
                   repoVars>>

NextParse == Parse

SpecParse == InitParse /\ [][NextParse]_vars

\* The one-letter card types.
CardLetters == {<<c>> : c \in DOMAIN CARDTYPES}

\* C8: parse fails on every line whose first token is not one of the 21 card
\* letters, so after a successful parse every key of the card map is one.
ParseRejectsUnknownCards ==
    pres.done =>
        /\ (\E i \in 1..Len(pres.val.cmds) : pres.val.cmds[i] \notin CardLetters)
               => pres.val.err # ""
        /\ pres.val.err = "" => DOMAIN pres.val.cards \subseteq CardLetters

\* Single letters outside the table are rejected.
ParseRejectsUnknownLetters ==
    pres.done =>
        \A i \in 1..Len(pres.val.cmds) :
            (Len(pres.val.cmds[i]) = 1 /\ pres.val.cmds[i] \notin CardLetters)
                => pres.val.err = "ValueError: unrecognized card"

----------------------------------------------------------------------------
(***************************************************************************)
(* LRUCache.  self.data, an OrderedDict, is the sequence of its entries    *)
(* [key, value] in the dict's order: the first entry is the one            *)
(* popitem(last=False) removes, a stored key goes to the end.              *)
(***************************************************************************)
Keys(d) == {d[i].key : i \in 1..Len(d)}

\* self.data[key], for a key of the dict
ValueOf(d, key) == (CHOOSE e \in {d[i] : i \in 1..Len(d)} : e.key = key).value

RECURSIVE Without(_, _)
\* self.data after self.data.pop(key), for a key of the dict
Without(d, key) ==
    IF d = <<>> THEN <<>>
    ELSE IF Head(d).key = key THEN Tail(d)
    ELSE <<Head(d)>> \o Without(Tail(d), key)

\* LRUCache.__getitem__: [err, data, value]
LRU_getitem(d, key) ==
    IF key \notin Keys(d) THEN [err |-> "KeyError", data |-> d, value |-> <<>>]
    ELSE [err |-> "", data |-> Append(Without(d, key), [key |-> key, value |-> ValueOf(d, key)]),
          value |-> ValueOf(d, key)]

\* LRUCache.get: [hit, data, value]; value is the default on a miss
LRU_get(d, key, default) ==
    IF key \notin Keys(d) THEN [hit |-> FALSE, data |-> d, value |-> default]
    ELSE [hit |-> TRUE, data |-> Append(Without(d, key), [key |-> key, value |-> ValueOf(d, key)]),
          value |-> ValueOf(d, key)]

\* __setitem__ with the wrong end evicted: popitem() instead of popitem(last=False).
LRU_setitem_evict_newest(cap, d, key, value) ==
    IF cap = 0 THEN d
    ELSE IF key \in Keys(d) THEN Append(Without(d, key), [key |-> key, value |-> value])
    ELSE IF Len(d) >= cap
         THEN Append(SubSeq(d, 1, Len(d) - 1), [key |-> key, value |-> value])
    ELSE Append(d, [key |-> key, value |-> value])

\* LRUCache.__setitem__: self.data afterwards
LRU_setitem(cap, d, key, value) ==
    IF cap = 0 THEN d
    ELSE IF key \in Keys(d) THEN Append(Without(d, key), [key |-> key, value |-> value])
    ELSE IF Len(d) >= cap THEN Append(Tail(d), [key |-> key, value |-> value])
    ELSE Append(d, [key |-> key, value |-> value])

----------------------------------------------------------------------------
(***************************************************************************)
(* The cache exercised by every sequence of at most MaxOps operations on   *)
(* keys 1..MaxKey, for every capacity up to MaxCap.  clock counts the      *)
(* operations; lastUse[k] is the time of the last use of k (a get that     *)
(* hit, or an insert); lruLast describes the last operation.               *)
(***************************************************************************)
MaxKey == 3
MaxCap == 2
MaxOps == 4

CacheValues == {<<97>>, <<98>>}

InitLRU ==
    /\ capacity \in 0..MaxCap /\ data = <<>>
    /\ clock = 0 /\ lastUse = <<>> /\ lruLast = NotYet
    /\ IdleVarint /\ IdleDelta /\ IdleCs /\ IdleText /\ IdleParse /\ IdleRepo

Used(key) == (key :> clock + 1) @@ lastUse

Record(op, key, value) ==
    [done |-> TRUE, op |-> op, key |-> key, value |-> value, before |-> data,
     usedBefore |-> lastUse]

\* cache.get(key)
Get(key) ==
    /\ clock < MaxOps
    /\ data' = LRU_get(data, key, <<>>).data
    /\ clock' = clock + 1
    /\ lastUse' = IF key \in Keys(data) THEN Used(key) ELSE lastUse
    /\ lruLast' = Record("get", key, <<>>)
    /\ UNCHANGED <<capacity, varintVars, deltaVars, csVars, textVars, parseVars, repoVars>>

\* cache[key]
GetItem(key) ==
    /\ clock < MaxOps
    /\ data' = LRU_getitem(data, key).data
    /\ clock' = clock + 1
    /\ lastUse' = IF key \in Keys(data) THEN Used(key) ELSE lastUse
    /\ lruLast' = Record("getitem", key, <<>>)
    /\ UNCHANGED <<capacity, varintVars, deltaVars, csVars, textVars, parseVars, repoVars>>

\* cache[key] = value
SetItem(key, value) ==
    /\ clock < MaxOps
    /\ data' = LRU_setitem(capacity, data, key, value)
    /\ clock' = clock + 1
    /\ lastUse' = Used(key)
    /\ lruLast' = Record("insert", key, value)
    /\ UNCHANGED <<capacity, varintVars, deltaVars, csVars, textVars, parseVars, repoVars>>

NextLRU ==
    \/ \E k \in 1..MaxKey : Get(k)
    \/ \E k \in 1..MaxKey : GetItem(k)
    \/ \E k \in 1..MaxKey, val \in CacheValues : SetItem(k, val)

SpecLRU == InitLRU /\ [][NextLRU]_vars

\* The entries of d other than key are those of b other than the keys in
\* gone, with their values.
SameOthers(d, b, key, gone) ==
    /\ Keys(d) \ {key} = Keys(b) \ (gone \cup {key})
    /\ \A k \in Keys(d) \ {key} : ValueOf(d, k) = ValueOf(b, k)

\* C3: with capacity c > 0, an insert of an absent key into a full cache
\* removes exactly the entry whose last use is the oldest; a get or an insert
\* on a present key makes it the most recently used and evicts nothing.  The
\* dict's order is the order of last use throughout.
LRUSemantics ==
    (lruLast.done /\ capacity > 0) =>
        LET b == lruLast.before
            k == lruLast.key
            t == lruLast.usedBefore
            oldest == {e \in Keys(b) : \A j \in Keys(b) : t[e] <= t[j]}
        IN  /\ \A i, j \in 1..Len(data) : i < j => lastUse[data[i].key] < lastUse[data[j].key]
            /\ Len(data) <= capacity
            /\ (lruLast.op = "insert" /\ k \notin Keys(b) /\ Len(b) = capacity) =>
                   /\ SameOthers(data, b, k, oldest)
                   /\ Cardinality(oldest) = 1
                   /\ k \in Keys(data) /\ ValueOf(data, k) = lruLast.value
            /\ (lruLast.op = "insert" /\ k \notin Keys(b) /\ Len(b) < capacity) =>
                   /\ SameOthers(data, b, k, {})
                   /\ k \in Keys(data) /\ ValueOf(data, k) = lruLast.value
            /\ (lruLast.op = "insert" /\ k \in Keys(b)) =>
                   /\ SameOthers(data, b, k, {})
                   /\ data[Len(data)] = [key |-> k, value |-> lruLast.value]
            /\ (lruLast.op \in {"get", "getitem"} /\ k \in Keys(b)) =>
                   /\ SameOthers(data, b, k, {})
                   /\ data[Len(data)] = [key |-> k, value |-> ValueOf(b, k)]
            /\ (lruLast.op \in {"get", "getitem"} /\ k \notin Keys(b)) => data = b

\* An insert of an absent key into a full cache of capacity 2 or more has
\* evicted its first entry and kept the others.
LRUEvictionWitness ==
    /\ lruLast.done /\ capacity >= 2
    /\ lruLast.op = "insert"
    /\ lruLast.key \notin Keys(lruLast.before)
    /\ Len(lruLast.before) = capacity
    /\ lruLast.before[1].key \notin Keys(data)
    /\ Len(data) = capacity

----------------------------------------------------------------------------
(***************************************************************************)
(* decompress, Repo.artifact                                               *)
(*                                                                         *)
(* A blob.content is [size, ok, data]: the declared size of its first four *)
(* bytes and the deflate stream after them, which inflates to data when ok *)
(* and is not a valid stream otherwise.  The database is [blob, delta]:    *)
(* blob maps a rid to its row's [uuid, content], delta maps the rid of a   *)
(* deltified blob to its srcid.                                            *)
(***************************************************************************)
\* decompress(blob): the declared size is read and not checked.
decompress(content) ==
    IF content.ok THEN [err |-> "", out |-> content.data]
    ELSE [err |-> "zlib.error", out |-> <<>>]

\* A lookup key: an int (a rid) or a str (a uuid).
IntKey(n) == [int |-> TRUE, rid |-> n, uuid |-> ""]
StrKey(u) == [int |-> FALSE, rid |-> 0, uuid |-> u]

\* The argument of an exception that reports no id.
NoArg == StrKey("")

Row(d, rid) == [rid |-> rid, uuid |-> d.blob[rid].uuid, content |-> d.blob[rid].content]

RECURSIVE ChainRows(_, _)
\* The rows of the recursive query for the blob rid, ORDER BY depth: the
\* row of depth 0 is rid's, each further row is the delta source of the one
\* before; the deepest comes first.
ChainRows(d, rid) ==
    IF rid \in DOMAIN d.delta /\ d.delta[rid] \in DOMAIN d.blob
    THEN Append(ChainRows(d, d.delta[rid]), Row(d, rid))
    ELSE <<Row(d, rid)>>

\* The rows the query of Repo.artifact returns for key.
Query(d, key) ==
    LET start == {r \in DOMAIN d.blob :
                      IF key.int THEN r = key.rid ELSE d.blob[r].uuid = key.uuid}
    IN  IF start = {} THEN <<>> ELSE ChainRows(d, CHOOSE r \in start : TRUE)

\* The loop's variables: blob (none: it is still None), the last row's rid
\* and uuid (bound: a row has been read), the cache, and the exception that
\* ended the loop, raised for the row failed.
LoopStart(cache) ==
    [cache |-> cache, none |-> TRUE, blob |-> <<>>, bound |-> FALSE, rid |-> 0,
     uuid |-> "", err |-> "", failed |-> 0]

Raised(st, row, e) == [st EXCEPT !.err = e, !.failed = row.rid]

\* The row is read: rid and uuid are bound to it.
AtRow(st, row) == [st EXCEPT !.bound = TRUE, !.rid = row.rid, !.uuid = row.uuid]

\* blob = <value>; self.cache[rid] = blob
Store(cap, st, row, value) ==
    [AtRow(st, row) EXCEPT !.none = FALSE, !.blob = value,
                           !.cache = LRU_setitem(cap, st.cache, row.rid, value)]

\* blob = self.cache[rid]
Hit(st, row, g) == [AtRow(st, row) EXCEPT !.cache = g.data, !.none = FALSE, !.blob = g.value]

\* blob = delta_apply(...), a being what delta_apply returned or raised
Applied(cap, st, row, a) ==
    IF a.err # "" THEN Raised(AtRow(st, row), row, a.err) ELSE Store(cap, st, row, a.out)

\* The same with the decompressed content z already in the cache when
\* delta_apply raises.
AppliedCacheFirst(cap, st, row, z, a) ==
    IF a.err # ""
    THEN Raised([AtRow(st, row) EXCEPT !.cache = LRU_setitem(cap, st.cache, row.rid, z.out)],
                row, a.err)
    ELSE Store(cap, st, row, a.out)

\* The else branch of the loop body, z being what decompress returned or
\* raised.  "if blob" holds for a blob that is neither None nor empty.
Decoded(cap, chk, st, row, z) ==
    IF z.err # "" THEN Raised(AtRow(st, row), row, z.err)
    ELSE IF ~st.none /\ st.blob # <<>>
         THEN Applied(cap, st, row, delta_apply(st.blob, z.out, chk))
    ELSE Store(cap, st, row, z.out)

DecodedCacheFirst(cap, chk, st, row, z) ==
    IF z.err # "" THEN Raised(AtRow(st, row), row, z.err)
    ELSE IF ~st.none /\ st.blob # <<>>
         THEN AppliedCacheFirst(cap, st, row, z, delta_apply(st.blob, z.out, chk))
    ELSE Store(cap, st, row, z.out)

\* The loop body with the cache written before the delta is applied.
ArtifactRowCacheFirst(cap, chk, st, row) ==
    IF row.rid \in Keys(st.cache) THEN Hit(st, row, LRU_getitem(st.cache, row.rid))
    ELSE DecodedCacheFirst(cap, chk, st, row, decompress(row.content))

\* The body of the for loop of Repo.artifact for one row.
ArtifactRow(cap, chk, st, row) ==
    IF row.rid \in Keys(st.cache) THEN Hit(st, row, LRU_getitem(st.cache, row.rid))
    ELSE Decoded(cap, chk, st, row, decompress(row.content))

RECURSIVE ArtifactLoop(_, _, _, _)
\* The for loop over the rows still to read; an exception ends it.
ArtifactLoop(cap, chk, st, rows) ==
    IF rows = <<>> \/ st.err # "" THEN st
    ELSE ArtifactLoop(cap, chk, ArtifactRow(cap, chk, st, Head(rows)), Tail(rows))

NoCards == [err |-> "", cards |-> <<>>, cmds |-> <<>>]

\* What the call returns or raises.
Outcome(st, kind, exc, arg, cards) ==
    [kind |-> kind, exc |-> exc, arg |-> arg, blob |-> st.blob, rid |-> st.rid,
     uuid |-> st.uuid, cards |-> cards, failed |-> st.failed]

\* StructuralArtifact(blob, rid, uuid), p being what parse returned or raised
Structural(st, p) ==
    IF p.err # "" THEN Outcome(st, "raise", p.err, NoArg, NoCards)
    ELSE Outcome(st, "StructuralArtifact", "", NoArg, p)

\* Repo.artifact after the loop, st being the loop's variables.
\* "can't find artifact: %s" % rid finds rid unbound when no row was read.
AfterLoop(st, type_) ==
    IF st.err # "" THEN Outcome(st, "raise", st.err, NoArg, NoCards)
    ELSE IF st.none \/ st.blob = <<>> THEN
        IF ~st.bound THEN Outcome(st, "raise", "UnboundLocalError", NoArg, NoCards)
        ELSE Outcome(st, "raise", "ValueError: can't find artifact", IntKey(st.rid), NoCards)
    ELSE IF type_ = "structural" THEN Structural(st, parse(st.blob))
    ELSE IF type_ = "file" THEN Outcome(st, "File", "", NoArg, NoCards)
    ELSE Outcome(st, "Artifact", "", NoArg, NoCards)

\* [cache, out]: self.cache after the loop, and the outcome.
Returned(st, type_) == [cache |-> st.cache, out |-> AfterLoop(st, type_)]

\* Repo.artifact(key, type_) on a Repo whose cache holds cache.
artifact(d, cap, chk, cache, key, type_) ==
    Returned(ArtifactLoop(cap, chk, LoopStart(cache), Query(d, key)), type_)

(***************************************************************************)
(* The reconstruction the specification defines, with no cache: the        *)
(* undeltified ancestor decompressed, then every delta of the chain        *)
(* applied, ancestor to target.                                            *)
(***************************************************************************)
RECURSIVE ApplyChain(_, _, _)
ApplyChain(chk, acc, rows) ==
    IF rows = <<>> \/ acc.err # "" THEN acc
    ELSE LET z == decompress(Head(rows).content) IN
         IF z.err # "" THEN [err |-> z.err, out |-> <<>>]
         ELSE LET a == delta_apply(acc.out, z.out, chk) IN
              ApplyChain(chk, [err |-> a.err, out |-> a.out], Tail(rows))

Reconstruct(chk, rows) == ApplyChain(chk, decompress(Head(rows).content), Tail(rows))

----------------------------------------------------------------------------
(***************************************************************************)
(* A Repo exercised by every sequence of lookups.  The database has four   *)
(* blobs: 1 undeltified, 2 a delta against 1, 3 a delta against 2, and 4   *)
(* undeltified; their contents are drawn from the sets below.  The cache   *)
(* starts empty with a capacity up to MaxCap.                              *)
(***************************************************************************)
Z(bytes) == [size |-> Len(bytes), ok |-> TRUE, data |-> bytes]
BadZ == [size |-> 0, ok |-> FALSE, data |-> <<>>]

\* "<sum of blob>;"
End(blob) ==
    putint_be(delta_checksum(blob)[1] * Half + delta_checksum(blob)[2]) \o <<59>>

\* "2\n1@1,1:x<sum>;": on "ab" gives "bx"
DeltaBx == <<50, 10, 49, 64, 49, 44, 49, 58, 120>> \o End(<<98, 120>>)
\* "1\n1:x<sum>;": gives "x" on any source
DeltaX == <<49, 10, 49, 58, 120>> \o End(<<120>>)
\* "0\n0;": gives the empty blob
DeltaEmpty == <<48, 10, 48, 59>>
\* "1\n1@0,<sum>;": the first byte of the source, with the sum of "b"
DeltaFirst == <<49, 10, 49, 64, 48, 44>> \o End(<<98>>)
\* "x!": no delta
DeltaBad == <<120, 33>>

Contents1 == {Z(<<>>), Z(<<97, 98>>)}
Contents2 == {Z(DeltaBx), Z(DeltaX), Z(DeltaEmpty), Z(DeltaBad), BadZ}
Contents3 == {Z(DeltaFirst), Z(DeltaBad)}
\* "C c\n", a one-card structural artifact
Contents4 == {Z(<<67, 32, 99, 10>>), BadZ}

Database(c1, c2, c3, c4) ==
    [blob  |-> (1 :> [uuid |-> "u1", content |-> c1] @@ 2 :> [uuid |-> "u2", content |-> c2]
                @@ 3 :> [uuid |-> "u3", content |-> c3] @@ 4 :> [uuid |-> "u4", content |-> c4]),
     delta |-> (2 :> 1 @@ 3 :> 2)]

\* The keys looked up: every rid and one that is no row's, a uuid and one
\* that is no row's.
LookupKeys == {IntKey(n) : n \in 1..5} \cup {StrKey(u) : u \in {"u3", "zz"}}

InitRepo ==
    /\ \E c1 \in Contents1, c2 \in Contents2, c3 \in Contents3, c4 \in Contents4 :
           db = Database(c1, c2, c3, c4)
    /\ check \in BOOLEAN
    /\ capacity \in 0..MaxCap /\ data = <<>>
    /\ res = NotYet
    /\ IdleVarint /\ IdleDelta /\ IdleCs /\ IdleText /\ IdleParse /\ IdleHist

RidsOf(rows) == [i \in 1..Len(rows) |-> rows[i].rid]

\* The state after the call returned or raised r.
Called(key, type_, r) ==
    /\ data' = r.cache
    /\ res' = [done |-> TRUE, key |-> key, type |-> type_, out |-> r.out,
               chain |-> RidsOf(Query(db, key)), before |-> Keys(data)]

\* repo.artifact(key, type_); res keeps what it returned or raised, with the
\* rids of the chain and the keys the cache held when it was called.
Artifact(key, type_) ==
    /\ Called(key, type_, artifact(db, capacity, check, data, key, type_))
    /\ UNCHANGED <<db, check, capacity, varintVars, deltaVars, csVars, textVars, parseVars,
                   histVars>>

NextRepo == \E key \in LookupKeys, type_ \in {"", "file", "structural"} : Artifact(key, type_)

SpecRepo == InitRepo /\ [][NextRepo]_vars

\* The last lookup found rows, and the chain decodes without corruption.
Decodable == res.done /\ res.chain # <<>> /\ Reconstruct(check, Query(db, res.key)).err = ""

\* C1: whatever earlier lookups left in the cache, a lookup returns the blob
\* that the reconstruction without a cache gives: the ancestor decompressed
\* and every delta of the chain applied in order.
ChainCorrect ==
    (Decodable /\ res.type # "structural") =>
        /\ res.out.kind # "raise"
        /\ res.out.blob = Reconstruct(check, Query(db, res.key)).out

\* The part of C1 that holds of the code: a lookup returns or raises what the
\* same call does on a Repo whose cache is disabled.
CacheIndependence ==
    res.done => res.out = artifact(db, 0, check, <<>>, res.key, res.type).out

\* C6: when a lookup fails while decompressing or delta-applying the row of
\* r, the cache afterwards holds no entry for r, and none for a later row of
\* the chain unless it held it before the lookup.
FailureLeavesNoPartial ==
    (res.done /\ res.out.failed # 0) =>
        LET at == CHOOSE i \in 1..Len(res.chain) : res.chain[i] = res.out.failed
        IN  /\ res.out.failed \notin Keys(data)
            /\ \A j \in (at + 1)..Len(res.chain) :
                   res.chain[j] \in Keys(data) => res.chain[j] \in res.before

\* A lookup has failed at a row after adding an ancestor of it to the cache,
\* and a later row of the chain exists.
FailureWitness ==
    /\ res.done /\ res.out.failed # 0
    /\ res.out.exc # "zlib.error"
    /\ \E i, j \in 1..Len(res.chain) :
           /\ i < j /\ j < Len(res.chain)
           /\ res.chain[j] = res.out.failed
           /\ res.chain[i] \in Keys(data) \ res.before

\* C7: a lookup raises the not-found ValueError, reporting its key, when the
\* query returns no rows, and only then: when the key resolves to a row and
\* the chain decodes without corruption, it returns an artifact with the
\* target row's rid and uuid.
NotFoundOnlyWithoutRows ==
    /\ (res.done /\ res.chain = <<>>) =>
           /\ res.out.kind = "raise"
           /\ res.out.exc = "ValueError: can't find artifact"
           /\ res.out.arg = res.key
    /\ (Decodable /\ res.type # "structural") =>
           /\ res.out.kind \in {"Artifact", "File"}
           /\ res.out.rid = res.chain[Len(res.chain)]
           /\ res.out.uuid = db.blob[res.out.rid].uuid

=============================================================================
